---- MODULE Spec2Model ----
(***************************************************************************)
(* London Traffic Live: the disruption pipeline (fetch, validate, filter,  *)
(* count) of hooks/useDisruptions.ts and the TfL service, the selection    *)
(* state of App.tsx and the MapController effect of TrafficMap.tsx.        *)
(*                                                                         *)
(* Four specifications: Spec is App with the hook, SpecMap adds time and   *)
(* the popup timers, SpecHook is the hook under a caller that may pass an  *)
(* alert callback and may discard the hook, SpecNormalize is the           *)
(* normalizing service of services/tflApi.ts applied to one element.       *)
(*                                                                         *)
(* Strings that are searched are sequences of one-character strings, so    *)
(* that toLowerCase and includes are computed.  A JavaScript null is the   *)
(* record Null (a selection), the string NoError (an error message) or 0   *)
(* (lastUpdated).  Coordinates are in thousandths of a degree, times in    *)
(* milliseconds.                                                           *)
(***************************************************************************)
EXTENDS Integers, Sequences, FiniteSets, TLC

VARIABLES disruptions, loadingState, filters, lastUpdated, isInitialLoad,
          inFlight, cycles, selectedDisruption, mapView, popup,
          timers, markerRefs,
          onShowAlert, shownAlert, newSevereCount,
          mounted, intervalRef, intervals,
          rawItem, normalized

vars == <<disruptions, loadingState, filters, lastUpdated, isInitialLoad,
          inFlight, cycles, selectedDisruption, mapView, popup,
          timers, markerRefs,
          onShowAlert, shownAlert, newSevereCount,
          mounted, intervalRef, intervals,
          rawItem, normalized>>

\* What a finished fetch cycle told the outside: the alert it passed to
\* onShowAlert and the count it logged as new severe disruptions.
alertVars == <<onShowAlert, shownAlert, newSevereCount>>

\* The hook's lifetime: whether it is mounted, the interval id it holds and
\* the intervals the browser still runs.
lifeVars == <<mounted, intervalRef, intervals>>

storeVars == <<disruptions, loadingState, lastUpdated, isInitialLoad, inFlight, cycles,
               alertVars, lifeVars>>

\* The normalizing service at work on one upstream element: the element and
\* the Disruption made of it (Null before it is made).
serviceVars == <<rawItem, normalized>>

mapVars == <<mapView, popup, timers, markerRefs>>

-----------------------------------------------------------------------------
(* Bounds *)

MaxCycles == 3

MaxInFlight == 2

MaxTimers == 2

-----------------------------------------------------------------------------
(* Program constants *)

TEXT_CONSTANTS_7 == "Serious"

TEXT_CONSTANTS_8 == "Moderate"

TEXT_CONSTANTS_9 == "Minimal"

TEXT_CONSTANTS_32 == "Failed to fetch traffic disruptions. Please try again later."

NETWORK_ERROR_MESSAGE == "Network error - please check your connection"

ANIMATION_DURATION_MS == 800

\* A settle delay shorter than the animation.
POPUP_DELAY_MS_BeforeAnimationEnds == ANIMATION_DURATION_MS - 100

POPUP_DELAY_MS == 900

SELECTED_ZOOM == 15

DEFAULT_ZOOM == 11

LONDON_CENTER == <<51507, -128>>

TickMs == 100

NoError == "null"

Null == [isNull |-> TRUE]

IsNull(d) == d = Null

-----------------------------------------------------------------------------
(* JavaScript string operations on sequences of characters *)

UpperCaseLetters ==
  <<"A", "B", "C", "D", "E", "F", "G", "H", "I", "J", "K", "L", "M",
    "N", "O", "P", "Q", "R", "S", "T", "U", "V", "W", "X", "Y", "Z">>

LowerCaseLetters ==
  <<"a", "b", "c", "d", "e", "f", "g", "h", "i", "j", "k", "l", "m",
    "n", "o", "p", "q", "r", "s", "t", "u", "v", "w", "x", "y", "z">>

LowerChar(c) ==
  IF \E i \in DOMAIN UpperCaseLetters : UpperCaseLetters[i] = c
  THEN LowerCaseLetters[CHOOSE i \in DOMAIN UpperCaseLetters : UpperCaseLetters[i] = c]
  ELSE c

toLowerCase(s) == [i \in DOMAIN s |-> LowerChar(s[i])]

includes(s, q) ==
  \E i \in 0..(Len(s) - Len(q)) : SubSeq(s, i + 1, i + Len(q)) = q

\* The characters of the two messages the service throws.
MessageChars(message) ==
  IF message = NETWORK_ERROR_MESSAGE
  THEN <<"N", "e", "t", "w", "o", "r", "k", " ", "e", "r", "r", "o", "r", " ", "-", " ",
       "p", "l", "e", "a", "s", "e", " ", "c", "h", "e", "c", "k", " ", "y", "o", "u",
       "r", " ", "c", "o", "n", "n", "e", "c", "t", "i", "o", "n">>
  ELSE <<"F", "a", "i", "l", "e", "d", " ", "t", "o", " ", "f", "e", "t", "c", "h", " ",
       "t", "r", "a", "f", "f", "i", "c", " ", "d", "i", "s", "r", "u", "p", "t", "i",
       "o", "n", "s", ".", " ", "P", "l", "e", "a", "s", "e", " ", "t", "r", "y", " ",
       "a", "g", "a", "i", "n", " ", "l", "a", "t", "e", "r", ".">>

-----------------------------------------------------------------------------
(* Upstream items: what the TfL endpoint may return.  A missing or empty   *)
(* field is "" (falsy), a missing geography is the empty sequence.         *)

ItemA ==
  [id |-> "1", location |-> <<"O", "x">>, severity |-> "Serious",
   comments |-> <<"b", "a">>, currentUpdate |-> "update", status |-> "Active",
   geography |-> <<-141, 51515>>]

ItemB ==
  [id |-> "2", location |-> <<"o", "X", "b">>, severity |-> "Moderate",
   comments |-> <<"O", "x">>, currentUpdate |-> "update", status |-> "Inactive",
   geography |-> <<-100, 51500>>]

ItemC ==
  [id |-> "3", location |-> <<"B", "a">>, severity |-> "Severe",
   comments |-> <<"b">>, currentUpdate |-> "update", status |-> "Active",
   geography |-> <<0, 90000>>]

ItemD ==
  [id |-> "4", location |-> <<"a">>, severity |-> "Minimal",
   comments |-> <<"b">>, currentUpdate |-> "update", status |-> "Active",
   geography |-> <<>>]

ItemE ==
  [id |-> "5", location |-> <<"A", "b">>, severity |-> "Minimal",
   comments |-> <<"x">>, currentUpdate |-> "update", status |-> "Active",
   geography |-> <<-300, 51400>>]

\* An element in the flat upstream shape: severityLevel and lat/lon, and no
\* severity, comments, currentUpdate or geography field.
ItemF ==
  [id |-> "1", location |-> <<"O", "x", "f", "o", "r", "d", " ", "S", "t">>,
   severityLevel |-> "Severe incident", severity |-> "",
   comments |-> <<>>, currentUpdate |-> "", status |-> "active",
   lat |-> 51515, lon |-> -141, geography |-> <<>>]

\* One payload carries an element without coordinates and a null element,
\* one a single element in the flat shape.
Payloads ==
  { <<ItemA>>, <<ItemA, ItemB>>, <<ItemC, ItemD, Null, ItemE>>, <<ItemA, ItemE>>,
    <<ItemF>> }

\* How a request can fail: no response, a response that is not ok, a body
\* that is not JSON, a JSON body that is not an array.
FailureKinds == {"network", "http", "parse", "notArray"}

SearchInputs == { <<>>, <<"o">>, <<"B">> }

-----------------------------------------------------------------------------
(* services/tflApi: TflApiService *)

hasRequiredData(item) ==
  /\ ~IsNull(item)
  /\ item.id # ""
  /\ item.location # <<>>
  /\ item.severity # ""
  /\ item.comments # <<>>
  /\ item.currentUpdate # ""
  /\ item.status # ""
  /\ Len(item.geography) >= 2

toDisruption(item) ==
  [id |-> item.id, location |-> item.location, severity |-> item.severity,
   comments |-> item.comments, currentUpdate |-> item.currentUpdate,
   status |-> item.status,
   geography |-> <<item.geography[1], item.geography[2]>>]

\* The first element without the required data ends the result: the elements
\* after it are lost with it.
getTrafficDisruptions_StopsAtInvalid(data) ==
  LET bad == { i \in DOMAIN data : ~hasRequiredData(data[i]) }
      n == IF bad = {} THEN Len(data)
           ELSE (CHOOSE i \in bad : \A j \in bad : i <= j) - 1
  IN  [i \in 1..n |-> toDisruption(data[i])]

getTrafficDisruptions(data) ==
  LET Valid(item) == hasRequiredData(item)
      kept == SelectSeq(data, Valid)
  IN  [i \in DOMAIN kept |-> toDisruption(kept[i])]

\* What the try block throws: fetch rejects with a TypeError, a response that
\* is not ok throws an Error, response.json() rejects with a SyntaxError, and
\* data.filter on a value that is not an array throws a TypeError.
ThrownError(kind) ==
  CASE kind = "network" -> "TypeError"
    [] kind = "http" -> "Error"
    [] kind = "parse" -> "SyntaxError"
    [] kind = "notArray" -> "TypeError"

\* The catch block: the message of the Error the service rethrows.
getTrafficDisruptionsError(kind) ==
  IF ThrownError(kind) = "TypeError" THEN NETWORK_ERROR_MESSAGE ELSE TEXT_CONSTANTS_32

-----------------------------------------------------------------------------
(* services/tflApi, the normalizing service: every upstream element is     *)
(* mapped to a Disruption, its severity and status normalized and its      *)
(* coordinates taken from the first place that has them.  A JavaScript     *)
(* value of any type is a record tagged with its type; the fields          *)
(* corridorIds, summary and additionalInfo, which no input here carries,   *)
(* are left out of the || chains.                                          *)

Str(chars) == [t |-> "string", v |-> chars]

Num(n) == [t |-> "number", v |-> n]

JSNull == [t |-> "null"]

Undefined == [t |-> "undefined"]

Truthy(x) ==
  CASE x.t = "string" -> x.v # <<>>
    [] x.t = "number" -> x.v # 0
    [] OTHER -> FALSE

\* a || b
Or(a, b) == IF Truthy(a) THEN a ELSE b

SEVERE == <<"S", "e", "v", "e", "r", "e">>

MODERATE == <<"M", "o", "d", "e", "r", "a", "t", "e">>

MINOR == <<"M", "i", "n", "o", "r">>

ACTIVE == <<"A", "c", "t", "i", "v", "e">>

INACTIVE == <<"I", "n", "a", "c", "t", "i", "v", "e">>

UNKNOWN_LOCATION == <<"U", "n", "k", "n", "o", "w", "n", " ", "l", "o", "c", "a", "t", "i", "o", "n">>

NO_DESCRIPTION == 
  <<"N", "o", " ", "d", "e", "s", "c", "r", "i", "p", "t", "i", "o", "n", " ", "a", "v", "a", "i", "l", "a", "b", "l", "e">>

NO_CURRENT_UPDATE == "No current update"

\* The substrings the normalizer looks for.
K_severe == <<"s", "e", "v", "e", "r", "e">>

K_major == <<"m", "a", "j", "o", "r">>

K_high == <<"h", "i", "g", "h">>

K_moderate == <<"m", "o", "d", "e", "r", "a", "t", "e">>

K_medium == <<"m", "e", "d", "i", "u", "m">>

K_minor == <<"m", "i", "n", "o", "r">>

K_low == <<"l", "o", "w">>

K_minimal == <<"m", "i", "n", "i", "m", "a", "l">>

K_active == <<"a", "c", "t", "i", "v", "e">>

K_current == <<"c", "u", "r", "r", "e", "n", "t">>

K_ongoing == <<"o", "n", "g", "o", "i", "n", "g">>

K_resolved == <<"r", "e", "s", "o", "l", "v", "e", "d">>

K_closed == <<"c", "l", "o", "s", "e", "d">>

K_inactive == <<"i", "n", "a", "c", "t", "i", "v", "e">>

\* The test for "moderate" and "medium" comes before the test for "severe".
normalizeSeverity_ModerateFirst(severity) ==
  IF severity.t = "string"
  THEN LET lower == toLowerCase(severity.v)
       IN  IF includes(lower, K_moderate) \/ includes(lower, K_medium)
           THEN MODERATE
           ELSE IF includes(lower, K_severe) \/ includes(lower, K_major)
                   \/ includes(lower, K_high)
           THEN SEVERE
           ELSE MINOR
  ELSE MINOR

normalizeSeverity(severity) ==
  IF severity.t = "string"
  THEN LET lower == toLowerCase(severity.v)
       IN  IF includes(lower, K_severe) \/ includes(lower, K_major)
              \/ includes(lower, K_high)
           THEN SEVERE
           ELSE IF includes(lower, K_moderate) \/ includes(lower, K_medium)
           THEN MODERATE
           ELSE IF includes(lower, K_minor) \/ includes(lower, K_low)
                   \/ includes(lower, K_minimal)
           THEN MINOR
           ELSE MINOR
  ELSE MINOR

normalizeStatus(status) ==
  IF status.t = "string"
  THEN LET lower == toLowerCase(status.v)
       IN  IF includes(lower, K_active) \/ includes(lower, K_current)
              \/ includes(lower, K_ongoing)
           THEN ACTIVE
           ELSE IF includes(lower, K_resolved) \/ includes(lower, K_closed)
                   \/ includes(lower, K_inactive)
           THEN INACTIVE
           ELSE ACTIVE
  ELSE ACTIVE

\* The bounds of the random demo location, in thousandths of a degree.
LONDON_BOUNDS == [north |-> 51700, south |-> 51300, east |-> 300, west |-> -600]

\* Math.random(), in tenths.
RandomDraws == {0, 5}

\* extractGeography; r1 and r2 are the two values Math.random() returns when
\* it is called.  No coordinates is the empty sequence.
extractGeography(item, r1, r2) ==
  IF item.geography # <<>> THEN item.geography
  ELSE IF item.point # <<>> THEN item.point
  ELSE IF Truthy(item.lat) /\ Truthy(item.lon) THEN <<item.lon.v, item.lat.v>>
  ELSE IF item.location # <<>> \/ item.description # <<>>
  THEN << LONDON_BOUNDS.west + (r1 * (LONDON_BOUNDS.east - LONDON_BOUNDS.west)) \div 10,
          LONDON_BOUNDS.south + (r2 * (LONDON_BOUNDS.north - LONDON_BOUNDS.south)) \div 10 >>
  ELSE <<>>

\* The id made up for an element without one, from Math.random().
RandomId(r) == IF r = 0 THEN "disruption-0" ELSE "disruption-5"

\* The callback of data.map: one upstream element to one Disruption.
mapItem(item, r0, r1, r2) ==
  [id |-> IF item.id # "" THEN item.id ELSE RandomId(r0),
   location |-> IF item.location # <<>> THEN item.location
                ELSE IF item.description # <<>> THEN item.description
                ELSE UNKNOWN_LOCATION,
   severity |-> normalizeSeverity(Or(item.severityLevel, item.severity)),
   comments |-> IF item.description # <<>> THEN item.description
                ELSE IF item.comments # <<>> THEN item.comments
                ELSE NO_DESCRIPTION,
   currentUpdate |-> IF item.currentUpdate # "" THEN item.currentUpdate
                     ELSE NO_CURRENT_UPDATE,
   status |-> normalizeStatus(item.status),
   geography |-> extractGeography(item, r1, r2)]

\* A Disruption read as an upstream element.
AsItem(d) ==
  [id |-> d.id, location |-> d.location, description |-> <<>>,
   severityLevel |-> Undefined, severity |-> Str(d.severity),
   comments |-> d.comments, currentUpdate |-> d.currentUpdate,
   status |-> Str(d.status), geography |-> d.geography, point |-> <<>>,
   lat |-> Undefined, lon |-> Undefined]

\* Upstream elements for the normalizing service.
SeverityInputs ==
  { Str(<<"S", "e", "v", "e", "r", "e", " ", "i", "n", "c", "i", "d", "e", "n", "t">>),
    Str(<<"M", "A", "J", "O", "R">>),
    Str(<<"H", "i", "g", "h">>),
    Str(<<"M", "o", "d", "e", "r", "a", "t", "e">>),
    Str(<<"m", "e", "d", "i", "u", "m">>),
    Str(<<"m", "o", "d", "e", "r", "a", "t", "e", "l", "y", " ", "s", "e", "v", "e", "r", "e">>),
    Str(<<"M", "i", "n", "o", "r">>),
    Str(<<"l", "o", "w">>),
    Str(<<"M", "i", "n", "i", "m", "a", "l">>),
    Str(<<"S", "e", "r", "i", "o", "u", "s">>),
    Str(<<>>),
    JSNull, Undefined, Num(3) }

StatusInputs ==
  { Str(<<"A", "c", "t", "i", "v", "e">>),
    Str(<<"a", "c", "t", "i", "v", "e">>),
    Str(<<"I", "n", "a", "c", "t", "i", "v", "e">>),
    Str(<<"r", "e", "s", "o", "l", "v", "e", "d">>),
    Str(<<"C", "l", "o", "s", "e", "d">>),
    Str(<<"o", "n", "g", "o", "i", "n", "g">>),
    Str(<<"u", "n", "k", "n", "o", "w", "n">>),
    Undefined }

GeographyInputs ==
  { [geography |-> <<-141, 51515>>, point |-> <<>>, lat |-> Undefined, lon |-> Undefined],
    [geography |-> <<>>, point |-> <<-100, 51500>>, lat |-> Undefined, lon |-> Undefined],
    [geography |-> <<>>, point |-> <<>>, lat |-> Num(51515), lon |-> Num(-141)],
    [geography |-> <<>>, point |-> <<>>, lat |-> Num(51480), lon |-> Num(0)],
    [geography |-> <<-141, 51515>>, point |-> <<-100, 51500>>,
     lat |-> Num(51400), lon |-> Num(-300)],
    [geography |-> <<>>, point |-> <<>>, lat |-> Undefined, lon |-> Undefined] }

RawItems ==
  { [id |-> id, location |-> loc, description |-> <<>>,
     severityLevel |-> sl, severity |-> sv,
     comments |-> <<"b", "a">>, currentUpdate |-> "update",
     status |-> st, geography |-> g.geography, point |-> g.point,
     lat |-> g.lat, lon |-> g.lon] :
      id \in {"", "1"}, loc \in {<<>>, <<"O", "x">>},
      sl \in SeverityInputs, sv \in {Undefined, Str(K_high)},
      st \in StatusInputs, g \in GeographyInputs }

-----------------------------------------------------------------------------
(* Alerts: what the hook passes to onShowAlert.  count is the number the   *)
(* alert's message carries, 0 when it carries none.                        *)

NoAlert == [type |-> "none", title |-> "", count |-> 0]

Alert(type, title, count) == [type |-> type, title |-> title, count |-> count]

\* useErrorHandler: the alert handleApiError shows for an error message.
handleApiError(message) ==
  LET lower == toLowerCase(MessageChars(message))
  IN  IF includes(lower, <<"n", "e", "t", "w", "o", "r", "k">>)
         \/ includes(lower, <<"f", "e", "t", "c", "h">>)
      THEN Alert("error", "Connection Problem", 0)
      ELSE IF includes(lower, <<"5", "0", "0">>) \/ includes(lower, <<"5", "0", "2">>)
              \/ includes(lower, <<"5", "0", "3">>)
      THEN Alert("error", "Service Temporarily Unavailable", 0)
      ELSE IF includes(lower, <<"4", "0", "4">>)
      THEN Alert("error", "Service Not Found", 0)
      ELSE IF includes(lower, <<"4", "2", "9">>)
      THEN Alert("warning", "Too Many Requests", 0)
      ELSE Alert("error", "Data Loading Error", 0)

-----------------------------------------------------------------------------
(* hooks/useDisruptions: pure functions *)

\* The search compares the location as written, without lower-casing it.
filterDisruptions_CaseSensitive(ds, f) ==
  LET Keep(d) ==
        IF d.status # "Active" THEN FALSE
        ELSE IF d.severity \notin f.severities THEN FALSE
        ELSE IF f.searchQuery # <<>>
             THEN includes(d.location, toLowerCase(f.searchQuery))
             ELSE TRUE
  IN  SelectSeq(ds, Keep)

filterDisruptions(ds, f) ==
  LET Keep(d) ==
        IF d.status # "Active" THEN FALSE
        ELSE IF d.severity \notin f.severities THEN FALSE
        ELSE IF f.searchQuery # <<>>
             THEN includes(toLowerCase(d.location), toLowerCase(f.searchQuery))
             ELSE TRUE
  IN  SelectSeq(ds, Keep)

CountSeverity(ds, sev) ==
  LET Is(d) == d.severity = sev
  IN  Len(SelectSeq(ds, Is))

calculateCounts(ds) ==
  [severe |-> CountSeverity(ds, TEXT_CONSTANTS_7),
   moderate |-> CountSeverity(ds, TEXT_CONSTANTS_8),
   minor |-> CountSeverity(ds, TEXT_CONSTANTS_9),
   total |-> Len(ds)]

filteredDisruptions == filterDisruptions(disruptions, filters)

hookDisruptionCounts == calculateCounts(disruptions)

InitialFilters ==
  [severities |-> {TEXT_CONSTANTS_7, TEXT_CONSTANTS_8, TEXT_CONSTANTS_9},
   searchQuery |-> <<>>]

-----------------------------------------------------------------------------
(* App.tsx: derived values and render guards *)

AppDisruptionCounts ==
  [severe |-> CountSeverity(filteredDisruptions, "Severe"),
   moderate |-> CountSeverity(filteredDisruptions, "Moderate"),
   minor |-> CountSeverity(filteredDisruptions, "Minor"),
   total |-> Len(filteredDisruptions)]

ClearAllFilters ==
  [severities |-> {"Severe", "Moderate", "Minor"}, searchQuery |-> <<>>]

UIRendered(ls) == ~ls.isLoading /\ ls.error = NoError

ErrorScreen(ls) == ~ls.isLoading /\ ls.error # NoError

-----------------------------------------------------------------------------
(* components/TrafficMap: markers and the MapController effect.  The map   *)
(* exists only while App renders its main view; a timer is a pending       *)
(* setTimeout callback with the time elapsed since it was scheduled, which *)
(* is also the time since the setView animation of that selection began.   *)

NoPopup == "none"

Unmounted == [center |-> <<0, 0>>, zoom |-> 0]

DefaultView == [center |-> LONDON_CENTER, zoom |-> DEFAULT_ZOOM]

Max(a, b) == IF a >= b THEN a ELSE b

Min(a, b) == IF a <= b THEN a ELSE b

TimerCap == Max(POPUP_DELAY_MS, ANIMATION_DURATION_MS)

\* Every record with coordinates gets a marker, wherever it lies.
HasMarker_NoBounds(d) ==
  /\ Len(d.geography) >= 2
  /\ d.geography[1] \in Int
  /\ d.geography[2] \in Int

HasMarker(d) ==
  /\ Len(d.geography) >= 2
  /\ ~(\/ d.geography[2] < 51200
       \/ d.geography[2] > 51800
       \/ d.geography[1] < -800
       \/ d.geography[1] > 400)

MarkerIds(ds) == { ds[i].id : i \in { j \in DOMAIN ds : HasMarker(ds[j]) } }

HasCoordinates(sel) == ~IsNull(sel) /\ Len(sel.geography) >= 2

\* The effect leaves the viewport alone when the selection is null.
EffectView_NullKeepsView(sel, view) ==
  IF HasCoordinates(sel)
  THEN [center |-> <<sel.geography[2], sel.geography[1]>>, zoom |-> SELECTED_ZOOM]
  ELSE view

\* The state of a map on which the effect has just run for selection sel.
EffectView(sel, view) ==
  IF HasCoordinates(sel)
  THEN [center |-> <<sel.geography[2], sel.geography[1]>>, zoom |-> SELECTED_ZOOM]
  ELSE IF IsNull(sel) THEN DefaultView ELSE view

EffectPopup(sel, p) ==
  IF HasCoordinates(sel) \/ IsNull(sel) THEN NoPopup ELSE p

EffectTimers(sel, ts) ==
  IF HasCoordinates(sel) THEN ts \cup {[id |-> sel.id, elapsed |-> 0]} ELSE ts

\* The Popup is a child of its Marker: it is gone when the marker is no
\* longer rendered.
PopupOnMap(p, visible) == IF p \in MarkerIds(visible) THEN p ELSE NoPopup

\* The map after a render in which the hook state is newLs, the selection
\* newSel and the list passed to TrafficMap newVisible.
\* While App returns the spinner or the error screen the map is not rendered;
\* callbacks still pending then act on markers of the removed map and show
\* nothing, so they leave the model.  A map rendered again starts at the
\* MapContainer defaults and runs the effect for the current selection.
MapRender(newLs, newSel, newVisible) ==
  LET wasUp == mounted /\ UIRendered(loadingState)
      up == mounted /\ UIRendered(newLs)
  IN  IF ~up
      THEN /\ mapView' = Unmounted
           /\ popup' = NoPopup
           /\ timers' = {}
           /\ markerRefs' = {}
      ELSE IF ~wasUp
      THEN /\ mapView' = EffectView(newSel, DefaultView)
           /\ popup' = EffectPopup(newSel, NoPopup)
           /\ timers' = EffectTimers(newSel, {})
           /\ markerRefs' = MarkerIds(newVisible)
      ELSE IF newSel # selectedDisruption
      THEN /\ mapView' = EffectView(newSel, mapView)
           /\ popup' = PopupOnMap(EffectPopup(newSel, popup), newVisible)
           /\ timers' = EffectTimers(newSel, timers)
           /\ markerRefs' = markerRefs \cup MarkerIds(newVisible)
      ELSE /\ UNCHANGED <<mapView, timers>>
           /\ popup' = PopupOnMap(popup, newVisible)
           /\ markerRefs' = markerRefs \cup MarkerIds(newVisible)

-----------------------------------------------------------------------------
(* State after construction: the mount effect has started the first fetch  *)
(* and installed the refresh interval.  App calls useDisruptions() without *)
(* an alert callback.                                                      *)

\* The id setInterval returned: a positive number.
IntervalId == 1

RemoveAt(s, i) == SubSeq(s, 1, i - 1) \o SubSeq(s, i + 1, Len(s))

Range(s) == { s[i] : i \in DOMAIN s }

Init ==
  /\ disruptions = <<>>
  /\ loadingState = [isLoading |-> TRUE, error |-> NoError]
  /\ filters = InitialFilters
  /\ lastUpdated = 0
  /\ isInitialLoad = TRUE
  /\ inFlight = << [isManualRefresh |-> FALSE, existing |-> <<>>] >>
  /\ cycles = 1
  /\ selectedDisruption = Null
  /\ mapView = Unmounted
  /\ popup = NoPopup
  /\ timers = {}
  /\ markerRefs = {}
  /\ onShowAlert = FALSE
  /\ shownAlert = NoAlert
  /\ newSevereCount = 0
  /\ mounted = TRUE
  /\ intervalRef = IntervalId
  /\ intervals = {IntervalId}
  /\ rawItem = Null
  /\ normalized = Null

-----------------------------------------------------------------------------
(* hooks/useDisruptions: the fetch cycle *)

\* fetchDisruptions up to its await: the loading flag is raised.
fetchDisruptionsStart(isManualRefresh, existing) ==
  /\ cycles < MaxCycles
  /\ Len(inFlight) < MaxInFlight
  /\ loadingState' = [loadingState EXCEPT !.isLoading = TRUE]
  /\ inFlight' = Append(inFlight, [isManualRefresh |-> isManualRefresh, existing |-> existing])
  /\ cycles' = cycles + 1
  /\ MapRender(loadingState', selectedDisruption, filteredDisruptions)
  /\ UNCHANGED <<disruptions, filters, lastUpdated, isInitialLoad, selectedDisruption,
                 alertVars, lifeVars, serviceVars>>

\* The setInterval callback, while the browser runs the interval: the
\* fetchDisruptions of the first render, whose disruptions are the initial [].
IntervalRefresh ==
  /\ IntervalId \in intervals
  /\ fetchDisruptionsStart(FALSE, <<>>)

\* refreshData, from the header button or the error screen's retry button.
refreshData ==
  /\ mounted
  /\ ~loadingState.isLoading
  /\ fetchDisruptionsStart(TRUE, disruptions)

\* The count is also taken on a manual refresh.
newSevereDisruptions_AlsoOnManual(isManualRefresh, data, existing) ==
  IF ~isInitialLoad
  THEN Cardinality({ i \in DOMAIN data :
                       /\ data[i].severity = TEXT_CONSTANTS_7
                       /\ \A j \in DOMAIN existing : existing[j].id # data[i].id })
  ELSE 0

\* newSevereCount of a cycle that resolved with data: taken on automatic
\* cycles after the initial load, against the disruptions of the closure the
\* cycle was started from; 0 when it is not taken.
newSevereDisruptions(isManualRefresh, data, existing) ==
  IF ~isInitialLoad /\ ~isManualRefresh
  THEN Cardinality({ i \in DOMAIN data :
                       /\ data[i].severity = TEXT_CONSTANTS_7
                       /\ \A j \in DOMAIN existing : existing[j].id # data[i].id })
  ELSE 0

\* The last alert a resolved cycle shows: the warning when the count is
\* positive, then the success alert, whose condition reads isInitialLoad
\* after it was set to false.
fetchSuccessAlert(isManualRefresh, data, count) ==
  LET isInitialLoadCurrent == FALSE
  IN  IF onShowAlert /\ (isInitialLoadCurrent \/ isManualRefresh)
      THEN Alert("success", "Data Updated", Len(data))
      ELSE IF count > 0 /\ onShowAlert
      THEN Alert("warning", "New Severe Disruptions", count)
      ELSE NoAlert

\* The alert of the catch block: the error handler exists exactly when
\* onShowAlert was passed, and the service always throws an Error.
fetchFailureAlert(message) ==
  IF onShowAlert THEN handleApiError(message) ELSE NoAlert

\* The new records are appended to the previous ones instead of replacing them.
fetchDisruptionsSuccess_Merge(i, payload) ==
  LET data == getTrafficDisruptions(payload)
  IN  /\ mounted
      /\ disruptions' = disruptions \o data
      /\ lastUpdated' = lastUpdated + 1
      /\ loadingState' = [isLoading |-> FALSE, error |-> NoError]
      /\ isInitialLoad' = FALSE
      /\ inFlight' = RemoveAt(inFlight, i)
      /\ newSevereCount' =
           newSevereDisruptions(inFlight[i].isManualRefresh, data, inFlight[i].existing)
      /\ shownAlert' = fetchSuccessAlert(inFlight[i].isManualRefresh, data, newSevereCount')
      /\ MapRender(loadingState', selectedDisruption, filterDisruptions(disruptions', filters))
      /\ UNCHANGED <<filters, cycles, selectedDisruption, onShowAlert, lifeVars, serviceVars>>

\* A resolved cycle lowers the loading flag and leaves the error in place.
fetchDisruptionsSuccess_KeepsError(i, payload) ==
  LET data == getTrafficDisruptions(payload)
  IN  /\ mounted
      /\ disruptions' = data
      /\ lastUpdated' = lastUpdated + 1
      /\ loadingState' = [loadingState EXCEPT !.isLoading = FALSE]
      /\ isInitialLoad' = FALSE
      /\ inFlight' = RemoveAt(inFlight, i)
      /\ newSevereCount' =
           newSevereDisruptions(inFlight[i].isManualRefresh, data, inFlight[i].existing)
      /\ shownAlert' = fetchSuccessAlert(inFlight[i].isManualRefresh, data, newSevereCount')
      /\ MapRender(loadingState', selectedDisruption, filterDisruptions(data, filters))
      /\ UNCHANGED <<filters, cycles, selectedDisruption, onShowAlert, lifeVars, serviceVars>>

\* The result of a cycle is dropped when a cycle started after it is still
\* in flight.
fetchDisruptionsSuccess_LatestStartedOnly(i, payload) ==
  LET data == getTrafficDisruptions(payload)
  IN  /\ mounted
      /\ disruptions' = IF i = Len(inFlight) THEN data ELSE disruptions
      /\ lastUpdated' = lastUpdated + 1
      /\ loadingState' = [isLoading |-> FALSE, error |-> NoError]
      /\ isInitialLoad' = FALSE
      /\ inFlight' = RemoveAt(inFlight, i)
      /\ newSevereCount' =
           newSevereDisruptions(inFlight[i].isManualRefresh, data, inFlight[i].existing)
      /\ shownAlert' = fetchSuccessAlert(inFlight[i].isManualRefresh, data, newSevereCount')
      /\ MapRender(loadingState', selectedDisruption, filterDisruptions(disruptions', filters))
      /\ UNCHANGED <<filters, cycles, selectedDisruption, onShowAlert, lifeVars, serviceVars>>

\* The awaited call resolved with the upstream array payload.
fetchDisruptionsSuccess(i, payload) ==
  LET data == getTrafficDisruptions(payload)
  IN  /\ mounted
      /\ disruptions' = data
      /\ lastUpdated' = lastUpdated + 1
      /\ loadingState' = [isLoading |-> FALSE, error |-> NoError]
      /\ isInitialLoad' = FALSE
      /\ inFlight' = RemoveAt(inFlight, i)
      /\ newSevereCount' =
           newSevereDisruptions(inFlight[i].isManualRefresh, data, inFlight[i].existing)
      /\ shownAlert' = fetchSuccessAlert(inFlight[i].isManualRefresh, data, newSevereCount')
      /\ MapRender(loadingState', selectedDisruption, filterDisruptions(data, filters))
      /\ UNCHANGED <<filters, cycles, selectedDisruption, onShowAlert, lifeVars, serviceVars>>

\* The catch block also empties the records.
fetchDisruptionsFailure_ClearsRecords(i, kind) ==
  /\ mounted
  /\ disruptions' = <<>>
  /\ loadingState' = [isLoading |-> FALSE, error |-> getTrafficDisruptionsError(kind)]
  /\ inFlight' = RemoveAt(inFlight, i)
  /\ newSevereCount' = 0
  /\ shownAlert' = fetchFailureAlert(getTrafficDisruptionsError(kind))
  /\ MapRender(loadingState', selectedDisruption, <<>>)
  /\ UNCHANGED <<filters, lastUpdated, isInitialLoad, cycles, selectedDisruption,
                 onShowAlert, lifeVars, serviceVars>>

\* The awaited call threw: the catch block.
fetchDisruptionsFailure(i, kind) ==
  /\ mounted
  /\ loadingState' = [isLoading |-> FALSE, error |-> getTrafficDisruptionsError(kind)]
  /\ inFlight' = RemoveAt(inFlight, i)
  /\ newSevereCount' = 0
  /\ shownAlert' = fetchFailureAlert(getTrafficDisruptionsError(kind))
  /\ MapRender(loadingState', selectedDisruption, filteredDisruptions)
  /\ UNCHANGED <<disruptions, filters, lastUpdated, isInitialLoad, cycles, selectedDisruption,
                 onShowAlert, lifeVars, serviceVars>>

FetchSuccess == \E i \in DOMAIN inFlight : \E p \in Payloads : fetchDisruptionsSuccess(i, p)

FetchFailure == \E i \in DOMAIN inFlight : \E k \in FailureKinds : fetchDisruptionsFailure(i, k)

\* The interval keeps running after the hook is gone.
Unmount_KeepsInterval ==
  /\ mounted
  /\ mounted' = FALSE
  /\ UNCHANGED <<intervalRef, intervals>>
  /\ mapView' = Unmounted
  /\ popup' = NoPopup
  /\ timers' = {}
  /\ markerRefs' = {}
  /\ UNCHANGED <<disruptions, loadingState, filters, lastUpdated, isInitialLoad, inFlight,
                 cycles, selectedDisruption, alertVars, serviceVars>>

\* The owning view is discarded: the cleanup of the mount effect clears the
\* interval it holds.  A cycle still waiting for its response would set state
\* on the discarded hook, which has no effect: cycles end only while mounted.
Unmount ==
  /\ mounted
  /\ mounted' = FALSE
  /\ intervals' = IF intervalRef # 0 THEN intervals \ {intervalRef} ELSE intervals
  /\ intervalRef' = 0
  /\ mapView' = Unmounted
  /\ popup' = NoPopup
  /\ timers' = {}
  /\ markerRefs' = {}
  /\ UNCHANGED <<disruptions, loadingState, filters, lastUpdated, isInitialLoad, inFlight,
                 cycles, selectedDisruption, alertVars, serviceVars>>

-----------------------------------------------------------------------------
(* Filter and selection handlers; they exist only while the main view is   *)
(* rendered.                                                               *)

updateFilters(newFilters) ==
  /\ filters' = newFilters
  /\ UNCHANGED <<storeVars, serviceVars>>

handleSeverityChange(severity, checked) ==
  /\ mounted
  /\ UIRendered(loadingState)
  /\ updateFilters([filters EXCEPT !.severities =
                      IF checked THEN @ \cup {severity} ELSE @ \ {severity}])
  /\ MapRender(loadingState, selectedDisruption, filterDisruptions(disruptions, filters'))
  /\ UNCHANGED selectedDisruption

handleSearchChange(value) ==
  /\ mounted
  /\ UIRendered(loadingState)
  /\ updateFilters([filters EXCEPT !.searchQuery = value])
  /\ MapRender(loadingState, selectedDisruption, filterDisruptions(disruptions, filters'))
  /\ UNCHANGED selectedDisruption

\* A click on a list card or a marker.  Setting the selection it already has
\* changes no state and runs no effect.
handleDisruptionSelect(d) ==
  /\ mounted
  /\ UIRendered(loadingState)
  /\ d \in Range(filteredDisruptions)
  /\ d # selectedDisruption
  /\ selectedDisruption' = d
  /\ MapRender(loadingState, d, filteredDisruptions)
  /\ Cardinality(timers') <= MaxTimers
  /\ UNCHANGED <<filters, storeVars, serviceVars>>

handleClearAll ==
  /\ mounted
  /\ UIRendered(loadingState)
  /\ selectedDisruption' = Null
  /\ updateFilters(ClearAllFilters)
  /\ MapRender(loadingState, Null, filterDisruptions(disruptions, filters'))

SeverityChange ==
  \E k \in {TEXT_CONSTANTS_7, TEXT_CONSTANTS_8, TEXT_CONSTANTS_9} :
    \E checked \in BOOLEAN : handleSeverityChange(k, checked)

SearchChange == \E v \in SearchInputs : handleSearchChange(v)

Select == \E d \in Range(filteredDisruptions) : handleDisruptionSelect(d)

-----------------------------------------------------------------------------
(* Time and the popup timers *)

Tick ==
  /\ \E t \in timers : t.elapsed < TimerCap
  /\ timers' = { [t EXCEPT !.elapsed = Min(@ + TickMs, TimerCap)] : t \in timers }
  /\ UNCHANGED <<storeVars, serviceVars, filters, selectedDisruption, mapView, popup, markerRefs>>

\* The setTimeout callback scheduled by the effect for the record t.id:
\* openPopup on the marker registered under that id, which shows the popup
\* when that marker is on the map.
popupTimerFire(t) ==
  /\ t \in timers
  /\ t.elapsed >= POPUP_DELAY_MS
  /\ timers' = timers \ {t}
  /\ popup' = IF t.id \in markerRefs /\ t.id \in MarkerIds(filteredDisruptions)
               THEN t.id ELSE popup
  /\ UNCHANGED <<storeVars, serviceVars, filters, selectedDisruption, mapView, markerRefs>>

TimerFire == \E t \in timers : popupTimerFire(t)

-----------------------------------------------------------------------------
(* Specifications *)

Next ==
  \/ IntervalRefresh
  \/ refreshData
  \/ FetchSuccess
  \/ FetchFailure
  \/ SeverityChange
  \/ SearchChange
  \/ Select
  \/ handleClearAll

Spec == Init /\ [][Next]_vars

\* The map with time passing: the store holds a loaded payload, the user
\* selects, filters, clears and refreshes while the popup timers run.
InitMap ==
  /\ \E p \in Payloads : disruptions = getTrafficDisruptions(p)
  /\ loadingState = [isLoading |-> FALSE, error |-> NoError]
  /\ filters = InitialFilters
  /\ lastUpdated = 1
  /\ isInitialLoad = FALSE
  /\ inFlight = <<>>
  /\ cycles = 1
  /\ selectedDisruption = Null
  /\ mapView = DefaultView
  /\ popup = NoPopup
  /\ timers = {}
  /\ markerRefs = MarkerIds(filterDisruptions(disruptions, InitialFilters))
  /\ onShowAlert = FALSE
  /\ shownAlert = NoAlert
  /\ newSevereCount = 0
  /\ mounted = TRUE
  /\ intervalRef = IntervalId
  /\ intervals = {IntervalId}
  /\ rawItem = Null
  /\ normalized = Null

NextMap ==
  \/ refreshData
  \/ FetchSuccess
  \/ FetchFailure
  \/ SeverityChange
  \/ Select
  \/ handleClearAll
  \/ Tick
  \/ TimerFire

SpecMap == InitMap /\ [][NextMap]_vars

\* The hook on its own, under a caller that may pass an alert callback and
\* may discard it: fetch cycles, their alerts, and the teardown.
InitHook ==
  /\ disruptions = <<>>
  /\ loadingState = [isLoading |-> TRUE, error |-> NoError]
  /\ filters = InitialFilters
  /\ lastUpdated = 0
  /\ isInitialLoad = TRUE
  /\ inFlight = << [isManualRefresh |-> FALSE, existing |-> <<>>] >>
  /\ cycles = 1
  /\ selectedDisruption = Null
  /\ mapView = Unmounted
  /\ popup = NoPopup
  /\ timers = {}
  /\ markerRefs = {}
  /\ onShowAlert \in BOOLEAN
  /\ shownAlert = NoAlert
  /\ newSevereCount = 0
  /\ mounted = TRUE
  /\ intervalRef = IntervalId
  /\ intervals = {IntervalId}
  /\ rawItem = Null
  /\ normalized = Null

NextHook ==
  \/ IntervalRefresh
  \/ refreshData
  \/ FetchSuccess
  \/ FetchFailure
  \/ Unmount

SpecHook == InitHook /\ [][NextHook]_vars

\* The normalizing service alone: an upstream element is mapped to a
\* Disruption, and a Disruption is given back to the service as an element.
InitNormalize ==
  /\ rawItem \in RawItems
  /\ normalized = Null
  /\ disruptions = <<>>
  /\ loadingState = [isLoading |-> TRUE, error |-> NoError]
  /\ filters = InitialFilters
  /\ lastUpdated = 0
  /\ isInitialLoad = TRUE
  /\ inFlight = <<>>
  /\ cycles = 0
  /\ selectedDisruption = Null
  /\ mapView = Unmounted
  /\ popup = NoPopup
  /\ timers = {}
  /\ markerRefs = {}
  /\ onShowAlert = FALSE
  /\ shownAlert = NoAlert
  /\ newSevereCount = 0
  /\ mounted = FALSE
  /\ intervalRef = 0
  /\ intervals = {}

\* data.map calls the callback on the element.
Normalize ==
  /\ IsNull(normalized)
  /\ \E r0 \in RandomDraws : \E r1 \in RandomDraws : \E r2 \in RandomDraws :
       normalized' = mapItem(rawItem, r0, r1, r2)
  /\ UNCHANGED <<rawItem, storeVars, filters, selectedDisruption, mapVars>>

\* The Disruption comes back as an upstream element and is mapped again.
Renormalize ==
  /\ ~IsNull(normalized)
  /\ rawItem' = AsItem(normalized)
  /\ \E r0 \in RandomDraws : \E r1 \in RandomDraws : \E r2 \in RandomDraws :
       normalized' = mapItem(rawItem', r0, r1, r2)
  /\ UNCHANGED <<storeVars, filters, selectedDisruption, mapVars>>

NextNormalize ==
  \/ Normalize
  \/ Renormalize

SpecNormalize == InitNormalize /\ [][NextNormalize]_vars

TypeOK ==
  /\ loadingState.isLoading \in BOOLEAN
  /\ lastUpdated \in 0..MaxCycles
  /\ Len(inFlight) <= MaxInFlight
  /\ Cardinality(timers) <= MaxTimers

-----------------------------------------------------------------------------
(* Properties *)

ContainsIgnoringCase(s, q) ==
  \E i \in 0..(Len(s) - Len(q)) :
    \A k \in 1..Len(q) : LowerChar(s[i + k]) = LowerChar(q[k])

ShouldBeVisible(d) ==
  /\ d.status = "Active"
  /\ d.severity \in filters.severities
  /\ (filters.searchQuery = <<>> \/ ContainsIgnoringCase(d.location, filters.searchQuery))

CycleFailed == Len(inFlight') < Len(inFlight) /\ lastUpdated' = lastUpdated

\* A fetch cycle ends in success.
CycleSucceeded == Len(inFlight') < Len(inFlight) /\ lastUpdated' # lastUpdated

C4_CountsIgnoreFilter ==
  [][(filters' # filters /\ disruptions' = disruptions)
       => AppDisruptionCounts' = AppDisruptionCounts]_vars

ActiveCount == Cardinality({ i \in DOMAIN disruptions : disruptions[i].status = "Active" })

\* C5: the total count is the number of stored records whose status is Active.
C5_CountsActiveOnly == hookDisruptionCounts.total = ActiveCount

\* C6: the total count is the sum of the three severity counts.
C6_TotalIsSum ==
  hookDisruptionCounts.total =
    hookDisruptionCounts.severe + hookDisruptionCounts.moderate + hookDisruptionCounts.minor

\* C7: the clear action ends with no selection and with the filter criteria
\* the store starts with.
C7_ClearRestoresDefault ==
  [][handleClearAll => (selectedDisruption' = Null /\ filters' = InitialFilters)]_vars

\* C8: the selection is null or has the id of a stored record.
C8_NoStaleSelection ==
  \/ IsNull(selectedDisruption)
  \/ \E d \in Range(disruptions) : d.id = selectedDisruption.id

\* C9: a popup is opened only for the record that is the selection at that
\* moment.
C9_PopupOnlyForSelection ==
  [][(popup' # popup /\ popup' # NoPopup)
       => (~IsNull(selectedDisruption') /\ selectedDisruption'.id = popup')]_vars

\* C10: when the popup timer of a selection fires, more time than the
\* animation duration has passed since that selection started its animation.
C10_PopupAfterAnimation ==
  [][\A t \in timers : popupTimerFire(t) => t.elapsed > ANIMATION_DURATION_MS]_vars

\* A timer has fired and opened the popup of the selected record.
C10_Witness ==
  /\ popup # NoPopup
  /\ ~IsNull(selectedDisruption)
  /\ selectedDisruption.id = popup

-----------------------------------------------------------------------------
(* Severity enumeration, notifications, failures and teardown *)

\* The severity type of a Disruption.
SeverityEnum == {"Severe", "Moderate", "Minor"}

\* C11: every stored record has a severity of the closed enumeration.
C11_SeverityClosed == \A d \in Range(disruptions) : d.severity \in SeverityEnum

\* The most serious level, as the hook names it.
TopSeverity == TEXT_CONSTANTS_7

\* Records of ds at the top severity whose id no record of previous has.
NewSevere(ds, previous) ==
  Cardinality({ i \in DOMAIN ds :
                  /\ ds[i].severity = TopSeverity
                  /\ \A j \in DOMAIN previous : previous[j].id # ds[i].id })

\* C14: an automatic cycle that succeeds after the store was populated reports
\* as new-severe count the number of top-severity records of the new set whose
\* id is absent from the records the store held just before.
C14_NewSevereCountIsDiff ==
  [][\A i \in DOMAIN inFlight : \A p \in Payloads :
       (fetchDisruptionsSuccess(i, p) /\ ~inFlight[i].isManualRefresh /\ lastUpdated > 0)
         => newSevereCount' = NewSevere(disruptions', disruptions)]_vars

NewSevereTitle == "New Severe Disruptions"

\* C15: a cycle reports new severe disruptions (logs a positive count or shows
\* the warning) only when it is automatic and succeeds after an earlier
\* success; a manual cycle, the first successful cycle and a failing cycle
\* report none.
C15_NoNotificationOnManualOrInitial ==
  [][/\ \A i \in DOMAIN inFlight : \A p \in Payloads :
          (fetchDisruptionsSuccess(i, p)
             /\ (newSevereCount' > 0 \/ shownAlert'.title = NewSevereTitle))
            => (~inFlight[i].isManualRefresh /\ lastUpdated > 0)
     /\ CycleFailed => (newSevereCount' = 0 /\ shownAlert'.title # NewSevereTitle)]_vars

\* An automatic refresh after the initial load has reported a new severe
\* disruption, with the warning shown.
C15_Witness ==
  /\ newSevereCount > 0
  /\ shownAlert.title = NewSevereTitle
  /\ lastUpdated >= 2

\* C16: the full-screen error is shown only while the store has never been
\* populated.
C16_BlockingErrorOnlyOnFirstLoad ==
  (mounted /\ ErrorScreen(loadingState)) => lastUpdated = 0

ConnectionProblemTitle == "Connection Problem"

\* C17: a cycle failing with an HTTP status leaves a message other than the
\* transport failure's, and the alert it shows does not send the user to
\* check the connection.
C17_HttpMessageNotConnectivity ==
  [][\A i \in DOMAIN inFlight :
       fetchDisruptionsFailure(i, "http")
         => /\ loadingState'.error # getTrafficDisruptionsError("network")
            /\ shownAlert'.title # ConnectionProblemTitle]_vars

\* C18: a cycle failing on a malformed payload (not JSON, or not an array)
\* ends with the error of an HTTP status failure, not the transport one.
C18_MalformedLikeHttp ==
  [][\A i \in DOMAIN inFlight : \A k \in {"parse", "notArray"} :
       fetchDisruptionsFailure(i, k)
         => /\ loadingState'.error = getTrafficDisruptionsError("http")
            /\ loadingState'.error # getTrafficDisruptionsError("network")]_vars

\* An upstream element that is an object with every required field.
IsComplete(item) ==
  /\ ~IsNull(item)
  /\ item.id # "" /\ item.location # <<>> /\ item.severity # ""
  /\ item.comments # <<>> /\ item.currentUpdate # "" /\ item.status # ""
  /\ Len(item.geography) >= 2

\* C19: a cycle resolving with an upstream array succeeds with error null and
\* with one record for each complete element, in order, whatever the other
\* elements are, and raises no error alert.
C19_IncompleteElementsDropped ==
  [][\A i \in DOMAIN inFlight : \A p \in Payloads :
       fetchDisruptionsSuccess(i, p)
         => LET complete == SelectSeq(p, IsComplete)
            IN  /\ loadingState'.error = NoError
                /\ Len(disruptions') = Len(complete)
                /\ \A n \in DOMAIN complete :
                     /\ disruptions'[n].id = complete[n].id
                     /\ disruptions'[n].location = complete[n].location
                     /\ disruptions'[n].geography = complete[n].geography
                /\ shownAlert'.type # "error"]_vars

\* The payload with an element lacking coordinates and a null element between
\* two complete ones was loaded: both complete ones are stored, no error.
C19_Witness ==
  /\ Len(disruptions) = 2
  /\ disruptions[1].id = "3"
  /\ disruptions[2].id = "5"
  /\ loadingState.error = NoError

\* C20: once the hook is unmounted the browser runs no refresh interval and no
\* fetch cycle is started.
C20_NoRefreshAfterTeardown ==
  /\ [](~mounted => intervals = {})
  /\ [][~mounted => (cycles' = cycles /\ inFlight' = inFlight)]_vars

\* The hook was unmounted while the bounds still allowed a cycle to start.
C20_Witness ==
  /\ ~mounted
  /\ cycles < MaxCycles
  /\ Len(inFlight) < MaxInFlight

-----------------------------------------------------------------------------
(* Retry, overlapping cycles and the loading flag *)

\* The records the store should hold for an upstream array: one per complete
\* element, in order, with the fields of the element.
NormalizedPayload(p) ==
  LET complete == SelectSeq(p, IsComplete)
  IN  [n \in DOMAIN complete |->
         [id |-> complete[n].id, location |-> complete[n].location,
          severity |-> complete[n].severity, comments |-> complete[n].comments,
          currentUpdate |-> complete[n].currentUpdate, status |-> complete[n].status,
          geography |-> complete[n].geography]]

SuccessTitle == "Data Updated"

\* C21: a manual refresh that resolves while error is set (also after a
\* failed first load, with no records) ends with error null, loading false
\* and the records of the payload it resolved with.
C21_RetryRecovers ==
  [][\A i \in DOMAIN inFlight : \A p \in Payloads :
       (/\ loadingState.error # NoError
        /\ inFlight[i].isManualRefresh
        /\ fetchDisruptionsSuccess(i, p))
         => /\ loadingState'.error = NoError
            /\ loadingState'.isLoading = FALSE
            /\ disruptions' = NormalizedPayload(p)]_vars

\* The only cycle that ever succeeded was a manual one: it was started after
\* a cycle had failed, and it has cleared the error and loaded records.
C21_Witness ==
  /\ lastUpdated = 1
  /\ shownAlert.title = SuccessTitle
  /\ loadingState = [isLoading |-> FALSE, error |-> NoError]
  /\ Len(disruptions) > 0

C26_SuccessAlertOnInitialAndManual ==
  [][\A i \in DOMAIN inFlight : \A p \in Payloads :
       (onShowAlert /\ fetchDisruptionsSuccess(i, p))
         => ((isInitialLoad \/ inFlight[i].isManualRefresh)
               <=> shownAlert' = Alert("success", SuccessTitle, Len(disruptions')))]_vars

\* C29: loading is true exactly while a fetch cycle is in flight.
C29_LoadingIffInFlight ==
  mounted => (loadingState.isLoading <=> Len(inFlight) > 0)

-----------------------------------------------------------------------------
(* Markers, the flat upstream shape and the view reset *)

\* The coordinates lie in the box the map draws markers in.
InsideBox(d) ==
  /\ Len(d.geography) >= 2
  /\ d.geography[2] >= 51200 /\ d.geography[2] <= 51800
  /\ d.geography[1] >= -800 /\ d.geography[1] <= 400

\* C22: while the map is on screen, a stored record whose coordinates lie
\* outside the box is listed and counted like any other record (it is in the
\* visible list when it passes the filter, and in the totals), but no marker
\* and no popup exists for it; every visible record inside the box has a
\* marker.
C22_OutOfBoxListedNotMarked ==
  (mounted /\ UIRendered(loadingState)) =>
    /\ hookDisruptionCounts.total = Len(disruptions)
    /\ AppDisruptionCounts.total = Len(filteredDisruptions)
    /\ \A d \in Range(disruptions) :
         /\ (~InsideBox(d) /\ ShouldBeVisible(d)) => d \in Range(filteredDisruptions)
         /\ ~InsideBox(d) => (d.id \notin markerRefs /\ popup # d.id)
         /\ (InsideBox(d) /\ d \in Range(filteredDisruptions)) => d.id \in markerRefs

\* The record at latitude 90, longitude 0 is in the visible list and counted,
\* without a marker, next to a record that has one.
C22_Witness ==
  /\ mounted /\ UIRendered(loadingState)
  /\ \E d \in Range(filteredDisruptions) :
       /\ d.geography = <<0, 90000>>
       /\ d.id \notin markerRefs
  /\ AppDisruptionCounts.total = 2
  /\ \E d \in Range(filteredDisruptions) : d.id \in markerRefs

OxfordSt == <<"O", "x", "f", "o", "r", "d", " ", "S", "t">>

\* C23: a cycle resolving with the single flat element (id "1", location
\* "Oxford St", severityLevel "Severe incident", status "active", lat 51.515,
\* lon -0.141) leaves exactly one record, with those id and location,
\* severity Severe, status Active and coordinates [-0.141, 51.515]; under the
\* default filter it is visible and the counts are severe 1, total 1.
C23_OxfordStreetLoaded ==
  [][\A i \in DOMAIN inFlight :
       fetchDisruptionsSuccess(i, <<ItemF>>)
         => LET ds == disruptions'
                visible == filterDisruptions(ds, InitialFilters)
            IN  /\ Len(ds) = 1
                /\ ds[1].id = "1"
                /\ ds[1].location = OxfordSt
                /\ ds[1].severity = "Severe"
                /\ ds[1].status = "Active"
                /\ ds[1].geography = <<-141, 51515>>
                /\ Len(visible) = 1
                /\ calculateCounts(ds).severe = 1
                /\ calculateCounts(ds).total = 1]_vars

\* A record as the Disruption type allows it: without geography.
WithoutCoordinates ==
  [id |-> "4", location |-> <<"a">>, severity |-> "Minimal",
   comments |-> <<"b">>, currentUpdate |-> "update", status |-> "Active",
   geography |-> <<>>]

\* C28: a step that takes the selection from a record to null, with the map
\* on screen, closes the popup and sets the viewport to the centre
\* (51.5074, -0.1278) at zoom 11; in every state of the map, the effect run
\* for a record without coordinates would change neither the viewport nor
\* the popup and schedule no timer.
C28_ViewSync ==
  /\ [][(~IsNull(selectedDisruption) /\ IsNull(selectedDisruption')
         /\ mounted /\ UIRendered(loadingState'))
          => /\ popup' = NoPopup
             /\ mapView' = [center |-> <<51507, -128>>, zoom |-> 11]]_vars
  /\ [](/\ EffectView(WithoutCoordinates, mapView) = mapView
        /\ EffectPopup(WithoutCoordinates, popup) = popup
        /\ EffectTimers(WithoutCoordinates, timers) = timers)

\* The selection was cleared while the popup timer of the record selected
\* before is still pending: the view is the default one, no popup is open.
C28_Witness ==
  /\ IsNull(selectedDisruption)
  /\ timers # {}
  /\ mapView = DefaultView
  /\ popup = NoPopup
  /\ filters = ClearAllFilters

-----------------------------------------------------------------------------
(* The normalizing service *)

\* The argument normalizeSeverity was called with for the element.
SeverityArgument(item) == Or(item.severityLevel, item.severity)

ContainsWord(x, word) == x.t = "string" /\ ContainsIgnoringCase(x.v, word)

C13_NormalizationIdempotent ==
  [][(~IsNull(normalized) /\ normalized.geography # <<>>) => normalized' = normalized]_vars

\* C24: mapping an upstream element has one possible result, whatever
\* Math.random() returns, also for an element without an id or without
\* coordinates.
C24_NormalizerDeterministic ==
  [][(IsNull(normalized) /\ ~IsNull(normalized'))
       => \A r0 \in RandomDraws : \A r1 \in RandomDraws : \A r2 \in RandomDraws :
            mapItem(rawItem, r0, r1, r2) = normalized']_vars

\* C27: the coordinates of the Disruption are those of geography.coordinates
\* when the element has them, else those of point.coordinates when it has
\* them, else [lon, lat] when lat and lon are numbers, 0 included.
C27_CoordinateOrder ==
  ~IsNull(normalized) =>
    IF rawItem.geography # <<>> THEN normalized.geography = rawItem.geography
    ELSE IF rawItem.point # <<>> THEN normalized.geography = rawItem.point
    ELSE (rawItem.lat.t = "number" /\ rawItem.lon.t = "number")
           => normalized.geography = <<rawItem.lon.v, rawItem.lat.v>>

\* C30: the status of the Disruption is Inactive when the status string
\* contains "inactive", "resolved" or "closed" in any letter case, and Active
\* otherwise.
C30_InactiveStatus ==
  ~IsNull(normalized) =>
    LET x == rawItem.status
    IN  normalized.status =
          IF ContainsWord(x, K_inactive) \/ ContainsWord(x, K_resolved)
             \/ ContainsWord(x, K_closed)
          THEN INACTIVE
          ELSE ACTIVE

====
